---- MODULE Spec2Model ----
(***************************************************************************)
(* Victron BLE scanner: the advertisement callback of src/src/main.cpp     *)
(* (MyAdvertisedDeviceCallbacks::onResult), the helpers it calls and the   *)
(* three reading caches it fills.                                          *)
(*                                                                         *)
(* Conventions of the model                                                *)
(*  - a byte is a number in 0..255, a C array is a sequence, and C index i *)
(*    is sequence index i+1;                                               *)
(*  - a C string is a sequence of one-character strings;                   *)
(*  - a float field is kept as the integer it was converted from, in the   *)
(*    unit the code's factor implies (0.01 V, 0.1 A, Wh, 0.001 A, 0.1 %,   *)
(*    0.01 degree C);                                                      *)
(*  - the AES block primitive of the ESP-IDF library is an abstract keyed  *)
(*    function; counter mode around it is modelled as the library runs it. *)
(***************************************************************************)
EXTENDS Integers, Sequences, FiniteSets, TLC

(***************************************************************************)
(* Bounds of the model.                                                    *)
(***************************************************************************)
\* manufacturer-data lengths above 31 (which onResult truncates) go up to here
MaxManDataLen == 32
\* number of advertised addresses that are not in victronDevices
NumUnknownAddrs == 1

(***************************************************************************)
(* Integer and bit helpers, as C computes them.                            *)
(***************************************************************************)
RECURSIVE Pow2(_)
Pow2(n) == IF n = 0 THEN 1 ELSE 2 * Pow2(n - 1)

RECURSIVE BitAnd(_, _)
BitAnd(a, b) ==
  IF a = 0 \/ b = 0 THEN 0
  ELSE (IF a % 2 = 1 /\ b % 2 = 1 THEN 1 ELSE 0) + 2 * BitAnd(a \div 2, b \div 2)

RECURSIVE BitOr(_, _)
BitOr(a, b) ==
  IF a = 0 THEN b
  ELSE IF b = 0 THEN a
  ELSE (IF a % 2 = 1 \/ b % 2 = 1 THEN 1 ELSE 0) + 2 * BitOr(a \div 2, b \div 2)

RECURSIVE BitXor(_, _)
BitXor(a, b) ==
  IF a = 0 THEN b
  ELSE IF b = 0 THEN a
  ELSE (IF a % 2 # b % 2 THEN 1 ELSE 0) + 2 * BitXor(a \div 2, b \div 2)

Shl(a, n) == a * Pow2(n)
Shr(a, n) == a \div Pow2(n)

\* a 16-bit pattern read as int16_t
ToInt16(u) == IF u >= 32768 THEN u - 65536 ELSE u

\* little-endian 16-bit load at C offset off of buffer b (packed struct field)
LoadU16(b, off) == b[off + 1] + 256 * b[off + 2]

Min(a, b) == IF a < b THEN a ELSE b

Zeros(n) == [i \in 1..n |-> 0]

RECURSIVE IndexOf(_, _, _)
IndexOf(c, s, i) ==
  IF i > Len(s) THEN 0 ELSE IF s[i] = c THEN i ELSE IndexOf(c, s, i + 1)

(***************************************************************************)
(* hexCharToByte / hexCharStrToByteArray.                                  *)
(***************************************************************************)
DecDigits == <<"0", "1", "2", "3", "4", "5", "6", "7", "8", "9">>
LowerHex == <<"a", "b", "c", "d", "e", "f">>
UpperHex == <<"A", "B", "C", "D", "E", "F">>

hexCharToByte(hexChar) ==
  IF IndexOf(hexChar, DecDigits, 1) # 0 THEN IndexOf(hexChar, DecDigits, 1) - 1
  ELSE IF IndexOf(hexChar, LowerHex, 1) # 0 THEN IndexOf(hexChar, LowerHex, 1) - 1 + 10
  ELSE IF IndexOf(hexChar, UpperHex, 1) # 0 THEN IndexOf(hexChar, UpperHex, 1) - 1 + 10
  ELSE 255

\* the loop of hexCharStrToByteArray from position i, with its locals odd and
\* hi; the result is the bytes stored at byteArray[0], byteArray[1], ...
RECURSIVE HexLoop(_, _, _, _, _)
HexLoop(hexCharStr, i, odd, hi, acc) ==
  IF i > Len(hexCharStr) THEN acc
  ELSE LET nibble == hexCharToByte(hexCharStr[i]) IN
       IF nibble = 255 THEN HexLoop(hexCharStr, i + 1, odd, hi, acc)
       ELSE IF odd THEN HexLoop(hexCharStr, i + 1, FALSE, nibble, acc)
       ELSE HexLoop(hexCharStr, i + 1, TRUE, hi,
                    Append(acc, BitOr(Shl(hi, 4) % 256, nibble)))

hexCharStrToByteArray(hexCharStr) == HexLoop(hexCharStr, 1, TRUE, 0, <<>>)

(***************************************************************************)
(* Program constants.                                                      *)
(***************************************************************************)
AES_KEY_BITS == 128
VICTRON_TYPE_SOLAR_CHARGER == 1
VICTRON_TYPE_BATTERY_MONITOR == 2
VICTRON_TYPE_INVERTER == 3
DEVICE_SOLAR_CHARGER == 0
DEVICE_SMART_SHUNT == 1
DEVICE_BATTERY_SENSE == 2
\* sizeof(victronDevices) / sizeof(victronDevices[0])
victronDeviceCount == 3
\* offsets of the packed struct victronManufacturerData
OffVendorID == 0
OffRecordType == 6
OffNonce == 7
OffKeyMatch == 9
OffEncrypted == 10
\* uint8_t manCharBuf[32]; byte inputData[16]; byte outputData[16]
ManCharBufSize == 32
InputDataSize == 16
OutputDataSize == 16
\* if (manDataSize > 31) manDataSize = 31
ManDataCap == 31

(***************************************************************************)
(* The configured table victronDevices, as written in the source, and the  *)
(* byte arrays setup() derives from its strings.                           *)
(***************************************************************************)
DeviceConfig ==
  [i \in 0..(victronDeviceCount - 1) |->
     CASE i = 0 -> [charMacAddr |-> <<"c", "1", "5", "6", "3", "9", "b", "4", "7", "d", "b", "5">>,
                    charKey |-> 
                       <<"f", "2", "d", "c", "c", "3", "b", "a", "4", "0", "e", "d", "b", "8", "d", "e", "7", "e", "0", "7", "d", "7", "6", "3", "8", "f", "1", "3", "f", "9", "7", "1">>,
                    comment |-> "SmartSolar", deviceType |-> DEVICE_SOLAR_CHARGER]
       [] i = 1 -> [charMacAddr |-> <<"f", "9", "3", "c", "c", "f", "0", "c", "1", "b", "2", "e">>,
                    charKey |-> 
                       <<"4", "c", "1", "e", "3", "c", "c", "d", "3", "d", "8", "9", "2", "d", "b", "1", "3", "d", "7", "a", "4", "3", "7", "4", "0", "b", "7", "f", "1", "0", "2", "1">>,
                    comment |-> "SmartShunt", deviceType |-> DEVICE_SMART_SHUNT]
       [] i = 2 -> [charMacAddr |-> <<"c", "1", "b", "6", "9", "1", "b", "d", "9", "e", "2", "b">>,
                    charKey |-> 
                       <<"b", "7", "a", "b", "e", "1", "9", "c", "0", "0", "3", "2", "4", "0", "b", "e", "9", "d", "a", "e", "8", "9", "b", "8", "c", "3", "7", "2", "d", "d", "4", "3">>,
                    comment |-> "BattSense", deviceType |-> DEVICE_BATTERY_SENSE]]

\* setup(): byteMacAddr and byteKey filled by hexCharStrToByteArray
victronDevices ==
  [i \in 0..(victronDeviceCount - 1) |->
     [deviceType |-> DeviceConfig[i].deviceType,
      comment |-> DeviceConfig[i].comment,
      byteMacAddr |-> hexCharStrToByteArray(DeviceConfig[i].charMacAddr),
      byteKey |-> hexCharStrToByteArray(DeviceConfig[i].charKey)]]

(***************************************************************************)
(* AES-128 in counter mode, as esp_aes_crypt_ctr runs it.  AesBlock stands *)
(* for the library's block encryption: a fixed function of the key and the *)
(* 16-byte counter block.                                                  *)
(***************************************************************************)
RECURSIVE WeightedSum(_, _)
WeightedSum(s, i) == IF i > Len(s) THEN 0 ELSE (2 * i + 1) * s[i] + WeightedSum(s, i + 1)

AesBlock(key, block) ==
  [j \in 1..16 |->
     (WeightedSum(key, 1) * (2 * j + 1) + WeightedSum(block, 1) * (j + 7)
        + 5 * key[j] + 3 * block[17 - j] + 99) % 256]

\* the library increments the counter block as a big-endian number
RECURSIVE CtrIncrement(_, _)
CtrIncrement(block, i) ==
  IF i = 0 THEN block
  ELSE IF block[i] = 255 THEN CtrIncrement([block EXCEPT ![i] = 0], i - 1)
  ELSE [block EXCEPT ![i] = block[i] + 1]

\* the loop of esp_aes_crypt_ctr from byte i (C index), with n the offset in
\* the current stream block: output[i] = input[i] ^ stream_block[n]
RECURSIVE CtrLoop(_, _, _, _, _, _, _, _)
CtrLoop(key, length, i, n, counter, stream, input, acc) ==
  IF i >= length THEN acc
  ELSE LET fresh == (n = 0)
           sb == IF fresh THEN AesBlock(key, counter) ELSE stream
           ctr == IF fresh THEN CtrIncrement(counter, 16) ELSE counter
       IN CtrLoop(key, length, i + 1, (n + 1) % 16, ctr, sb, input,
                  Append(acc, BitXor(input[i + 1], sb[n + 1])))

esp_aes_crypt_ctr(key, length, nonce_counter, input) ==
  CtrLoop(key, length, 0, 0, nonce_counter, Zeros(16), input, <<>>)

\* the nonce with the two counter bytes in the other order
NonceBlockBigEndian(nonceDataCounter) ==
  [j \in 1..16 |-> IF j = 1 THEN BitAnd(Shr(nonceDataCounter, 8), 255)
                   ELSE IF j = 2 THEN BitAnd(nonceDataCounter, 255)
                   ELSE 0]

\* uint8_t nonce_counter[16] = {data_counter_lsb, data_counter_msb, 0}
NonceBlock(nonceDataCounter) ==
  [j \in 1..16 |-> IF j = 1 THEN BitAnd(nonceDataCounter, 255)
                   ELSE IF j = 2 THEN BitAnd(Shr(nonceDataCounter, 8), 255)
                   ELSE 0]

\* esp_aes_setkey accepts the key lengths of AES and refuses any other
esp_aes_setkey(keybits) == IF keybits \in {128, 192, 256} THEN 0 ELSE 0 - 1

(***************************************************************************)
(* decryptVictronData.  buf is manCharBuf (viewed through vicData), the    *)
(* result is what the caller can observe: the return value, the first      *)
(* OutputDataSize bytes of outputData, how many bytes of the frame were    *)
(* copied to inputData, how many bytes the cipher read and wrote, and      *)
(* whether it went past inputData[16] or outputData[16].                   *)
(***************************************************************************)
\* for (int i = 0; i < dataSize && i < 16; i++) inputData[i] = ...
CopiedBytes(dataSize) == IF dataSize < 0 THEN 0 ELSE Min(dataSize, InputDataSize)

\* dataSize converted to the size_t length parameter of the cipher: a negative
\* int becomes 2^32 + dataSize, which HugeLength (the largest number TLC
\* holds, larger than any buffer of the program) stands for
HugeLength == 2147483647
CipherLength(dataSize) == IF dataSize < 0 THEN HugeLength ELSE dataSize

decryptVictronData(buf, deviceIndex, dataSize) ==
  LET copied == CopiedBytes(dataSize)
      inputData == [i \in 1..InputDataSize |->
                      IF i <= copied THEN buf[OffEncrypted + i] ELSE 0]
      length == CipherLength(dataSize)
      inBounds == Min(length, OutputDataSize)
      plain == esp_aes_crypt_ctr(victronDevices[deviceIndex].byteKey, inBounds,
                                 NonceBlock(LoadU16(buf, OffNonce)), inputData)
      status == esp_aes_setkey(AES_KEY_BITS)
  IN [ok |-> (status = 0),
      outputData |-> [i \in 1..OutputDataSize |->
                        IF status = 0 /\ i <= inBounds THEN plain[i] ELSE 0],
      copied |-> copied,
      cipherBytes |-> IF status = 0 THEN length ELSE 0,
      readPastInput |-> (status = 0 /\ length > InputDataSize),
      wrotePastOutput |-> (status = 0 /\ length > OutputDataSize)]

(***************************************************************************)
(* The reading caches solarData, shuntData and batterySenseData, as their  *)
(* static initialisers leave them ({false}: every other field zero).       *)
(***************************************************************************)
InitSolarData ==
  [valid |-> FALSE, batteryVoltage |-> 0, batteryCurrent |-> 0, todayYield |-> 0,
   inputPower |-> 0, loadCurrent |-> 0, chargeState |-> 0, errorCode |-> 0,
   rssi |-> 0, deviceName |-> <<>>]

InitShuntData ==
  [valid |-> FALSE, batteryVoltage |-> 0, batteryCurrent |-> 0, soc |-> 0,
   consumedAh |-> 0, ttg |-> 0, rssi |-> 0, deviceName |-> <<>>]

InitBatterySenseData ==
  [valid |-> FALSE, batteryVoltage |-> 0, temperature |-> 0, rssi |-> 0,
   deviceName |-> <<>>]

\* strncpy(dst, deviceName, 31)
Strncpy31(deviceName) == SubSeq(deviceName, 1, Min(Len(deviceName), 31))

(***************************************************************************)
(* processSolarCharger: data is outputData (16 bytes) read through the     *)
(* packed struct victronSolarData.                                         *)
(***************************************************************************)
\* the reserved-bit check with bit 1 left out of the mask (0xfc)
SolarReservedBitsMask0xFC(outputCurrentHi) == BitAnd(outputCurrentHi, 252) = 252

\* the decoder without the reserved-bit check
SolarReservedBitsIgnored(outputCurrentHi) == TRUE

\* byte unusedBits = solar->outputCurrentHi & 0xfe; if (unusedBits != 0xfe) return;
SolarReservedBitsOk(outputCurrentHi) == BitAnd(outputCurrentHi, 254) = 254

\* the load current with bit 0 of the high byte placed at bit 8
SolarOutputCurrentShift8(outputCurrentLo, outputCurrentHi) ==
  BitOr(Shl(BitAnd(outputCurrentHi, 1), 8), outputCurrentLo)

\* ((solar->outputCurrentHi & 0x01) << 9) | solar->outputCurrentLo
SolarOutputCurrent(outputCurrentLo, outputCurrentHi) ==
  BitOr(Shl(BitAnd(outputCurrentHi, 1), 9), outputCurrentLo)

SolarFields(data, rssi, deviceName) ==
  [valid |-> TRUE,
   batteryVoltage |-> ToInt16(LoadU16(data, 2)),
   batteryCurrent |-> ToInt16(LoadU16(data, 4)),
   todayYield |-> LoadU16(data, 6) * 10,
   inputPower |-> LoadU16(data, 8),
   loadCurrent |-> SolarOutputCurrent(data[11], data[12]),
   chargeState |-> data[1],
   errorCode |-> data[2],
   rssi |-> rssi,
   deviceName |-> Strncpy31(deviceName)]

processSolarCharger(data, rssi, deviceName, old) ==
  IF ~SolarReservedBitsOk(data[12])
  THEN [wrote |-> FALSE, value |-> old]
  ELSE [wrote |-> TRUE, value |-> SolarFields(data, rssi, deviceName)]

(***************************************************************************)
(* processSmartShunt: data read through victronBatteryMonitorData, whose   *)
(* packedData[7] starts at byte 8.                                         *)
(***************************************************************************)
PackedData(data, k) == data[8 + k + 1]

\* the current left as the 22 bits it was read as
SignExtendNone(raw) == raw

\* if (currentRaw & 0x200000) currentRaw |= 0xFFC00000;  raw has bits 22..31
\* clear, so setting them in an int32_t subtracts 2^22 from its value
SignExtend22(raw) == IF BitAnd(raw, 2097152) # 0 THEN raw - 4194304 ELSE raw

\* ((packedData[0] >> 2) | (packedData[1] << 6) | (packedData[2] << 14)) & 0x3FFFFF,
\* then sign extension from bit 21
ShuntCurrentRaw(data) ==
  SignExtend22(BitAnd(BitOr(BitOr(Shr(PackedData(data, 0), 2), Shl(PackedData(data, 1), 6)),
                            Shl(PackedData(data, 2), 14)), 4194303))

\* ((packedData[5] >> 4) | (packedData[6] << 4)) & 0x3FF
ShuntSocRaw(data) ==
  BitAnd(BitOr(Shr(PackedData(data, 5), 4), Shl(PackedData(data, 6), 4)), 1023)

\* if (socRaw != 0x3FF) shuntData.soc = float(socRaw) * 0.1;  otherwise the
\* field keeps the value it had
ShuntSoc(socRaw, oldSoc) == IF socRaw # 1023 THEN socRaw ELSE oldSoc

processSmartShunt(data, rssi, deviceName, old) ==
  [wrote |-> TRUE,
   value |-> [valid |-> TRUE,
              batteryVoltage |-> ToInt16(LoadU16(data, 2)),
              batteryCurrent |-> ShuntCurrentRaw(data),
              soc |-> ShuntSoc(ShuntSocRaw(data), old.soc),
              consumedAh |-> old.consumedAh,
              ttg |-> LoadU16(data, 0),
              rssi |-> rssi,
              deviceName |-> Strncpy31(deviceName)]]

(***************************************************************************)
(* processBatterySense: both branches on auxInput compute the same         *)
(* temperature, float(auxValue) * 0.01 - 273.15.                           *)
(***************************************************************************)
BatterySenseTemperature(data) ==
  LET auxInput == BitAnd(PackedData(data, 0), 3)
      auxValue == ToInt16(LoadU16(data, 6))
  IN IF auxInput = 2 THEN auxValue - 27315 ELSE auxValue - 27315

processBatterySense(data, rssi, deviceName, old) ==
  [wrote |-> TRUE,
   value |-> [valid |-> TRUE,
              batteryVoltage |-> ToInt16(LoadU16(data, 2)),
              temperature |-> BatterySenseTemperature(data),
              rssi |-> rssi,
              deviceName |-> Strncpy31(deviceName)]]

(***************************************************************************)
(* findDeviceByMac and the pieces of onResult.                             *)
(***************************************************************************)
\* the address comparison stopping one byte early (j < 5)
MacMatchesFiveBytes(mac, i) == \A j \in 1..5 : mac[j] = victronDevices[i].byteMacAddr[j]

MacMatches(mac, i) == \A j \in 1..6 : mac[j] = victronDevices[i].byteMacAddr[j]

findDeviceByMac(mac) ==
  IF \E i \in 0..(victronDeviceCount - 1) : MacMatches(mac, i)
  THEN CHOOSE i \in 0..(victronDeviceCount - 1) :
         MacMatches(mac, i) /\ \A k \in 0..(i - 1) : ~MacMatches(mac, k)
  ELSE 0 - 1

\* BLEAddress::toString(): "%02x:%02x:%02x:%02x:%02x:%02x"
HexDigitsLower == DecDigits \o LowerHex
RECURSIVE AddressToString(_, _)
AddressToString(bytes, i) ==
  IF i > Len(bytes) THEN <<>>
  ELSE (IF i > 1 THEN <<":">> ELSE <<>>)
       \o <<HexDigitsLower[(bytes[i] \div 16) + 1], HexDigitsLower[(bytes[i] % 16) + 1]>>
       \o AddressToString(bytes, i + 1)

\* the vendor check looking at the low byte only
VendorLowByteOnly(buf) == buf[OffVendorID + 1] = 225

\* if (vicData->vendorID != 0x02e1) return;
VendorIsVictron(buf) == LoadU16(buf, OffVendorID) = 737

\* the key check against the first configured device, whatever the address
KeyCheckFirstDevice(buf, deviceIndex) ==
  buf[OffKeyMatch + 1] = victronDevices[0].byteKey[1]

\* if (vicData->encryptKeyMatch != victronDevices[deviceIndex].byteKey[0]) ...
KeyCheckPasses(buf, deviceIndex) ==
  buf[OffKeyMatch + 1] = victronDevices[deviceIndex].byteKey[1]

\* the prefixes onResult strips from the advertised name
SmartSolarPrefix == <<"S", "m", "a", "r", "t", "S", "o", "l", "a", "r", " ">>
SmartShuntPrefix == <<"S", "m", "a", "r", "t", "S", "h", "u", "n", "t", " ">>
UnknownName == <<"(", "u", "n", "k", "n", "o", "w", "n", ")">>

StartsWith(s, p) == Len(s) >= Len(p) /\ SubSeq(s, 1, Len(p)) = p

\* char deviceName[32] = "(unknown)"; if (haveName) { strcpy; strip prefix }
DeviceNameOf(haveName, name) ==
  IF ~haveName THEN UnknownName
  ELSE IF StartsWith(name, SmartSolarPrefix) \/ StartsWith(name, SmartShuntPrefix)
       THEN SubSeq(name, 12, Len(name))
  ELSE name

(***************************************************************************)
(* The advertisements the scanner hands to onResult.  An advertisement is  *)
(* described by what the sending device put on the air:                    *)
(*   addr    which address it came from (0..2: the address configured for  *)
(*           victronDevices[addr]; above: an address that is not           *)
(*           configured)                                                   *)
(*   hasMan  whether it has a manufacturer-data field, and len, its length *)
(*   vendor, rtype   the vendor id and the declared record type            *)
(*   keyOf   the configured device whose key encrypted the payload and     *)
(*           whose key[0] is the key-check byte                            *)
(*   plain   which plaintext record was encrypted                          *)
(* and by the two things the C code leaves open:                           *)
(*   stale   what the uninitialised manCharBuf[32] holds before the copy   *)
(*   fault   whether a write past outputData[16] faults (the chip then     *)
(*           reboots) or goes unnoticed                                    *)
(***************************************************************************)
KnownAddrIds == 0..(victronDeviceCount - 1)
AddrIds == 0..(victronDeviceCount - 1 + NumUnknownAddrs)

\* an unconfigured address: a configured one with its last byte changed
AddressOf(addr) ==
  IF addr \in KnownAddrIds THEN hexCharStrToByteArray(DeviceConfig[addr].charMacAddr)
  ELSE LET k == addr - victronDeviceCount + 1
           base == hexCharStrToByteArray(DeviceConfig[(k - 1) % victronDeviceCount].charMacAddr)
       IN [base EXCEPT ![6] = (base[6] + k) % 256]

\* the name each device advertises (the battery sense advertises none)
AdvertisedName(addr) ==
  CASE addr = 0 -> SmartSolarPrefix \o <<"A", "1">>
    [] addr = 1 -> SmartShuntPrefix \o <<"B", "2">>
    [] addr = 2 -> <<>>
    [] OTHER -> <<"V", "E">>
HaveName(addr) == addr # 2
RssiOf(addr) == 0 - (60 + 5 * addr)

\* bytes of an unsigned value, least significant first
RECURSIVE LeBytes(_, _)
LeBytes(v, n) == IF n = 0 THEN <<>> ELSE <<v % 256>> \o LeBytes(v \div 256, n - 1)
U16(v) == LeBytes((v + 65536) % 65536, 2)

\* a solar-charger record as the device lays it out (victronSolarData)
SolarRecord(deviceState, errorCode, batteryVoltage, batteryCurrent, todayYield, inputPower, outputCurrentLo, outputCurrentHi) ==
  <<deviceState, errorCode>> \o U16(batteryVoltage) \o U16(batteryCurrent)
    \o U16(todayYield) \o U16(inputPower) \o <<outputCurrentLo, outputCurrentHi>>
    \o <<255, 255, 255, 255>>

\* a battery-monitor record (victronBatteryMonitorData): four 16-bit fields and
\* 56 packed bits, aux_input(2) current(22) consumed_ah(20) soc(10) from bit 0 up
MonitorRecord(ttg, batteryVoltage, alarm, auxValue, auxInput, current, consumedAh, soc) ==
  U16(ttg) \o U16(batteryVoltage) \o U16(alarm) \o U16(auxValue)
    \o LET cur == (current + 4194304) % 4194304
       IN << auxInput + 4 * (cur % 64), (cur \div 64) % 256, (cur \div 16384) % 256,
             consumedAh % 256, (consumedAh \div 256) % 256,
             ((consumedAh \div 65536) % 16) + 16 * (soc % 16), ((soc \div 16) % 64) + 192 >>
    \o <<255>>

\* battery-monitor records over the corners of the packed region: the current
\* at zero, around the sign and at both ends of 22 bits, each with the aux
\* selector bits clear and set and with the fields above bit 23 low and high
CurrentSamples == <<0, 1, 0 - 1, 2097151, 0 - 2097152, 0 - 1500, 1048576>>
RegionRecords ==
  [i \in 1..(4 * Len(CurrentSamples)) |->
     MonitorRecord(IF i % 2 = 0 THEN 240 ELSE 65535, 1250 + i, 0, 0,
                   IF i % 2 = 0 THEN 0 ELSE 3,
                   CurrentSamples[((i - 1) \div 4) + 1],
                   IF ((i - 1) \div 2) % 2 = 0 THEN 0 ELSE 1048575,
                   IF ((i - 1) \div 2) % 2 = 0 THEN 0 ELSE 1000)]

\* the records the devices send
PlainRecords ==
  << SolarRecord(3, 0, 1260, 0 - 15, 120, 45, 50, 253),
     SolarRecord(3, 0, 1260, 0 - 15, 120, 45, 50, 255),
     SolarRecord(5, 0, 1325, 23, 45, 60, 10, 254),
     MonitorRecord(125, 1280, 0, 65535, 3, 0 - 1500, 312, 500),
     MonitorRecord(65535, 1312, 0, 29515, 2, 4194303, 1048575, 1023) >>
    \o RegionRecords
PlainIds == 1..Len(PlainRecords)
\* where the battery-monitor records of RegionRecords sit in PlainRecords
RegionIds == (Len(PlainRecords) - Len(RegionRecords) + 1)..Len(PlainRecords)

\* bytes a device appends after the 16-byte record when it sends a longer frame
TailBytes == <<17, 34, 51, 68, 85, 102, 119>>
\* the nonce counter the device used for a record
NonceOf(plain) == (416 + 4369 * plain) % 65536

\* the nonce the device encrypts with: the counter it puts in nonceDataCounter,
\* low byte first, then fourteen zero bytes
DeviceNonce(counter) == <<counter % 256, counter \div 256>> \o Zeros(14)

\* the manufacturer data on the air: the 10-byte header of
\* victronManufacturerData, then the record encrypted in counter mode
FullFrame(adv) ==
  LET key == victronDevices[adv.keyOf].byteKey
      clear == PlainRecords[adv.plain] \o TailBytes
  IN U16(adv.vendor) \o <<16>> \o U16(41892) \o <<adv.plain>> \o <<adv.rtype>>
       \o U16(NonceOf(adv.plain)) \o <<key[1]>>
       \o esp_aes_crypt_ctr(key, Len(clear), DeviceNonce(NonceOf(adv.plain)), clear)

ManufacturerData(adv) == SubSeq(FullFrame(adv), 1, adv.len)

\* what the stack slot of manCharBuf can hold when onResult is entered: zeros,
\* or the frame an earlier call left there
StaleBuffers ==
  LET left(a, r, p) ==
        LET f == FullFrame([addr |-> a, vendor |-> 737, rtype |-> r, keyOf |-> a,
                            plain |-> p, len |-> 26])
        IN [i \in 1..ManCharBufSize |-> IF i <= 26 THEN f[i] ELSE 0]
  IN << Zeros(ManCharBufSize), left(2, 2, 5), left(0, 1, 2) >>
StaleIds == 1..Len(StaleBuffers)

OwnRecordType(addr) == IF addr = 0 \/ addr >= victronDeviceCount THEN 1 ELSE 2
OwnKey(addr) == IF addr \in KnownAddrIds THEN addr ELSE 0
OwnPlain(addr) == CASE addr = 1 -> 4 [] addr = 2 -> 5 [] OTHER -> 2

\* the advertisement a device sends when nothing is wrong with it
GoodAdvert(addr) ==
  [hasMan |-> TRUE, addr |-> addr, vendor |-> 737, rtype |-> OwnRecordType(addr),
   keyOf |-> OwnKey(addr), plain |-> OwnPlain(addr), len |-> 26, stale |-> 1,
   fault |-> FALSE]

RecordTypes == {VICTRON_TYPE_SOLAR_CHARGER, VICTRON_TYPE_BATTERY_MONITOR, VICTRON_TYPE_INVERTER}
KeyChoices(addr) ==
  IF addr \in KnownAddrIds THEN {addr, (addr + 1) % victronDeviceCount} ELSE {0}
\* 0x02E0, 0x03E1, 0xE102: one byte of the vendor id wrong, or the bytes swapped
ForeignVendors == {736, 993, 57602}

\* the records seen from each address: its own kind of record and some of
\* another kind
PlainsFrom(addr) ==
  CASE addr = 0 -> {1, 2, 3, 4}
    [] addr = 1 -> {2, 4, 5}
    [] addr = 2 -> {4, 5}
    [] OTHER -> {2, 5}

\* full-length frames: every address, with every declared type, a right or a
\* wrong key and several records; frames of other vendors that are otherwise
\* good; and an advertisement without manufacturer data
ProtocolAdverts ==
  UNION {{[GoodAdvert(a) EXCEPT !.rtype = r, !.keyOf = k, !.plain = p] :
            r \in RecordTypes, k \in KeyChoices(a), p \in PlainsFrom(a)} : a \in AddrIds}
  \cup {[GoodAdvert(a) EXCEPT !.vendor = v, !.len = l] :
          a \in KnownAddrIds, v \in ForeignVendors, l \in {2, 26}}
  \cup {[GoodAdvert(DEVICE_SOLAR_CHARGER) EXCEPT !.hasMan = FALSE, !.len = 0]}

\* frames of every length class: no field at all, a partial header, a header
\* with 0..21 encrypted bytes, and lengths onResult truncates
ShortLens == {0, 1, 2, 7, 9}
MidLens == {10, 11, 22, 25, 26}
LongLens == {27, 31} \cup (32..MaxManDataLen)
LengthAdverts ==
  {[GoodAdvert(a) EXCEPT !.hasMan = FALSE, !.len = 0] : a \in AddrIds}
  \cup {[GoodAdvert(a) EXCEPT !.len = l, !.stale = s] :
          a \in AddrIds, l \in ShortLens, s \in StaleIds}
  \cup {[GoodAdvert(a) EXCEPT !.len = l] : a \in AddrIds, l \in MidLens}
  \cup {[GoodAdvert(a) EXCEPT !.len = l, !.fault = f] :
          a \in AddrIds, l \in LongLens, f \in BOOLEAN}

(***************************************************************************)
(* onResult up to the point where it touches the caches: the path it       *)
(* takes and what it does on the way, for one advertisement.               *)
(***************************************************************************)
\* manData.copy(manCharBuf, manDataSize) over whatever the buffer held
ManCharBuf(adv) ==
  LET manDataSize == Min(adv.len, ManDataCap)
      data == ManufacturerData(adv)
  IN [i \in 1..ManCharBufSize |->
        IF i <= manDataSize THEN data[i] ELSE StaleBuffers[adv.stale][i]]

\* the switch asking the battery sense for record type 0x02 as well
DecoderForTypedSense(deviceType, recordType) ==
  CASE deviceType = DEVICE_SOLAR_CHARGER ->
         IF recordType = VICTRON_TYPE_SOLAR_CHARGER THEN "solar" ELSE "none"
    [] deviceType = DEVICE_SMART_SHUNT ->
         IF recordType = VICTRON_TYPE_BATTERY_MONITOR THEN "shunt" ELSE "none"
    [] deviceType = DEVICE_BATTERY_SENSE ->
         IF recordType = VICTRON_TYPE_BATTERY_MONITOR THEN "sense" ELSE "none"
    [] OTHER -> "none"

\* which decoder the switch on deviceType runs for a declared record type
DecoderFor(deviceType, recordType) ==
  CASE deviceType = DEVICE_SOLAR_CHARGER ->
         IF recordType = VICTRON_TYPE_SOLAR_CHARGER THEN "solar" ELSE "none"
    [] deviceType = DEVICE_SMART_SHUNT ->
         IF recordType = VICTRON_TYPE_BATTERY_MONITOR THEN "shunt" ELSE "none"
    [] deviceType = DEVICE_BATTERY_SENSE -> "sense"
    [] OTHER -> "none"

NoTrace ==
  [path |-> "none", lookupCalled |-> FALSE, decryptCalled |-> FALSE, uninitRead |-> {},
   log |-> <<>>, decoder |-> "none", data |-> Zeros(OutputDataSize), encrDataSize |-> 0,
   copied |-> 0, cipherBytes |-> 0, readPastInput |-> FALSE, wrotePastOutput |-> FALSE,
   rssi |-> 0, deviceName |-> <<>>, refresh |-> FALSE, reboot |-> FALSE]

\* the indices among S of manCharBuf that manData.copy did not fill
NotCopied(manDataSize, S) == {i \in S : i >= manDataSize}

\* from the decryption on: a cipher length that wrapped runs off the end of
\* memory, and a write past outputData[16] faults or goes unnoticed; a fault
\* restarts the chip
AfterDecrypt(adv, manDataSize, buf, deviceIndex, dec) ==
  IF manDataSize - OffEncrypted < 0 \/ (dec.wrotePastOutput /\ adv.fault)
  THEN [NoTrace EXCEPT !.path = "fault", !.reboot = TRUE,
          !.lookupCalled = TRUE, !.decryptCalled = TRUE,
          !.uninitRead = NotCopied(manDataSize, {0, 1, 7, 8, 9}),
          !.encrDataSize = manDataSize - OffEncrypted, !.copied = dec.copied,
          !.cipherBytes = dec.cipherBytes, !.readPastInput = dec.readPastInput,
          !.wrotePastOutput = dec.wrotePastOutput]
  ELSE IF ~dec.ok
  THEN [NoTrace EXCEPT !.path = "decryptFail", !.log = <<"DECRYPT FAIL">>,
          !.lookupCalled = TRUE, !.decryptCalled = TRUE,
          !.encrDataSize = manDataSize - OffEncrypted, !.copied = dec.copied]
  ELSE [NoTrace EXCEPT !.path = "dispatched",
          !.lookupCalled = TRUE, !.decryptCalled = TRUE,
          !.encrDataSize = manDataSize - OffEncrypted, !.copied = dec.copied,
          !.cipherBytes = dec.cipherBytes, !.readPastInput = dec.readPastInput,
          !.wrotePastOutput = dec.wrotePastOutput,
          !.decoder = DecoderFor(victronDevices[deviceIndex].deviceType,
                                 buf[OffRecordType + 1]),
          !.data = dec.outputData,
          !.rssi = RssiOf(adv.addr),
          !.deviceName = DeviceNameOf(HaveName(adv.addr), AdvertisedName(adv.addr)),
          !.refresh = TRUE]

\* from the registry lookup on: unknown device, key check, decryption
AfterLookup(adv, manDataSize, buf, deviceIndex) ==
  IF deviceIndex = 0 - 1
  THEN [NoTrace EXCEPT !.path = "unknownDevice", !.lookupCalled = TRUE,
                       !.uninitRead = NotCopied(manDataSize, {0, 1, 6}),
                       !.log = <<"NEW DEVICE">>]
  ELSE IF ~KeyCheckPasses(buf, deviceIndex)
  THEN [NoTrace EXCEPT !.path = "keyMismatch", !.lookupCalled = TRUE,
                       !.uninitRead = NotCopied(manDataSize, {0, 1, 9}),
                       !.log = <<"KEY MISMATCH">>]
  ELSE AfterDecrypt(adv, manDataSize, buf, deviceIndex,
                    decryptVictronData(buf, deviceIndex, manDataSize - OffEncrypted))

\* from the copy into manCharBuf on: the vendor check, then the lookup of the
\* address, which getAddress().toString() and hexCharStrToByteArray turn into
\* macByte
AfterCopy(adv, manDataSize, buf) ==
  IF ~VendorIsVictron(buf)
  THEN [NoTrace EXCEPT !.path = "wrongVendor",
                       !.uninitRead = NotCopied(manDataSize, {0, 1})]
  ELSE AfterLookup(adv, manDataSize, buf,
         findDeviceByMac(hexCharStrToByteArray(AddressToString(AddressOf(adv.addr), 1))))

OnResultTrace(adv) ==
  IF ~adv.hasMan THEN [NoTrace EXCEPT !.path = "noManufacturerData"]
  ELSE AfterCopy(adv, Min(adv.len, ManDataCap), ManCharBuf(adv))

(***************************************************************************)
(* updateDisplay: what it prints, from the caches and the page.            *)
(***************************************************************************)
\* the screen setup() leaves ("Ready!")
ReadyScreen == [page |-> 0 - 1, solar |-> <<>>, temp |-> <<>>, shunt |-> <<>>, ttg |-> <<>>]

updateDisplay(sol, sh, bs, page) ==
  [page |-> page,
   solar |-> IF page = 0 /\ sol.valid
             THEN <<sol.batteryVoltage, sol.batteryCurrent, sol.inputPower,
                    sol.todayYield, sol.chargeState>>
             ELSE <<>>,
   temp |-> IF page = 1 /\ bs.valid THEN <<bs.temperature>> ELSE <<>>,
   shunt |-> IF page = 1 /\ sh.valid THEN <<sh.soc, sh.batteryCurrent>> ELSE <<>>,
   ttg |-> IF page = 1 /\ sh.valid /\ sh.ttg # 65535
           THEN <<sh.ttg \div 60, sh.ttg % 60>> ELSE <<>>]

(***************************************************************************)
(* State.                                                                  *)
(***************************************************************************)
VARIABLES
  solarData,         \* the cached solar reading
  shuntData,         \* the cached shunt reading
  batterySenseData,  \* the cached battery-sense reading
  packetReceived,    \* bool packetReceived
  displayPage,       \* int displayPage
  display,           \* what the screen shows
  last               \* the advertisement handled last and what onResult did with it

vars == <<solarData, shuntData, batterySenseData, packetReceived, displayPage, display, last>>
caches == <<solarData, shuntData, batterySenseData>>

\* the shunt sending each record of RegionRecords, and the other two devices
\* sending their own record
RegionAdverts ==
  {[GoodAdvert(DEVICE_SMART_SHUNT) EXCEPT !.plain = p] : p \in RegionIds}
  \cup {GoodAdvert(DEVICE_SOLAR_CHARGER), GoodAdvert(DEVICE_BATTERY_SENSE)}

AllAdverts == ProtocolAdverts \cup LengthAdverts \cup RegionAdverts

\* onResult's path for every advertisement of the model
Traces == [adv \in AllAdverts |-> OnResultTrace(adv)]

Observed(adv, t, wrote, packet) ==
  [seen |-> TRUE, adv |-> adv, path |-> t.path, lookupCalled |-> t.lookupCalled,
   decryptCalled |-> t.decryptCalled, uninitRead |-> t.uninitRead, log |-> t.log,
   decoder |-> t.decoder, wrote |-> wrote, encrDataSize |-> t.encrDataSize,
   copied |-> t.copied, cipherBytes |-> t.cipherBytes,
   readPastInput |-> t.readPastInput, wrotePastOutput |-> t.wrotePastOutput,
   packet |-> packet, refresh |-> t.refresh]

Init ==
  /\ solarData = InitSolarData
  /\ shuntData = InitShuntData
  /\ batterySenseData = InitBatterySenseData
  /\ packetReceived = FALSE
  /\ displayPage = 0
  /\ display = ReadyScreen
  /\ last = [Observed(GoodAdvert(0), NoTrace, {}, FALSE) EXCEPT !.seen = FALSE]

(***************************************************************************)
(* onResult(advertisedDevice), whole: the path, then the switch on the     *)
(* configured device type, packetReceived and updateDisplay.  A fault      *)
(* restarts the chip: every variable of the program is initialised again.  *)
(***************************************************************************)
WroteSet(solar, shunt, sense) ==
  (IF solar.wrote THEN {"solar"} ELSE {}) \cup (IF shunt.wrote THEN {"shunt"} ELSE {})
    \cup (IF sense.wrote THEN {"sense"} ELSE {})

\* the end of onResult: the caches as the decoders left them, packetReceived
\* and updateDisplay, or the restart; the result is the program's next state
Finish(adv, t, solar, shunt, sense) ==
  IF t.reboot
  THEN [solarData |-> InitSolarData, shuntData |-> InitShuntData,
        batterySenseData |-> InitBatterySenseData, packetReceived |-> FALSE,
        displayPage |-> 0, display |-> ReadyScreen,
        last |-> Observed(adv, t, {}, FALSE)]
  ELSE [solarData |-> solar.value, shuntData |-> shunt.value,
        batterySenseData |-> sense.value,
        packetReceived |-> (packetReceived \/ t.decoder # "none"),
        displayPage |-> displayPage,
        display |-> IF t.refresh
                    THEN updateDisplay(solar.value, shunt.value, sense.value, displayPage)
                    ELSE display,
        last |-> Observed(adv, t, WroteSet(solar, shunt, sense), t.decoder # "none")]

\* the switch on the configured device type
Dispatch(adv, t) ==
  Finish(adv, t,
         IF t.decoder = "solar"
         THEN processSolarCharger(t.data, t.rssi, t.deviceName, solarData)
         ELSE [wrote |-> FALSE, value |-> solarData],
         IF t.decoder = "shunt"
         THEN processSmartShunt(t.data, t.rssi, t.deviceName, shuntData)
         ELSE [wrote |-> FALSE, value |-> shuntData],
         IF t.decoder = "sense"
         THEN processBatterySense(t.data, t.rssi, t.deviceName, batterySenseData)
         ELSE [wrote |-> FALSE, value |-> batterySenseData])

onResult(adv) ==
  \E next \in {Dispatch(adv, Traces[adv])} :
    /\ solarData' = next.solarData
    /\ shuntData' = next.shuntData
    /\ batterySenseData' = next.batterySenseData
    /\ packetReceived' = next.packetReceived
    /\ displayPage' = next.displayPage
    /\ display' = next.display
    /\ last' = next.last

\* loop(): BUTTON_1 pressed
Button1 ==
  /\ displayPage' = (displayPage + 1) % 2
  /\ display' = updateDisplay(solarData, shuntData, batterySenseData, displayPage')
  /\ UNCHANGED <<solarData, shuntData, batterySenseData, packetReceived, last>>

\* loop(): the once-a-second "Scanning..." refresh while no packet has come
LoopTick ==
  /\ ~packetReceived
  /\ display' = updateDisplay(solarData, shuntData, batterySenseData, displayPage)
  /\ UNCHANGED <<solarData, shuntData, batterySenseData, packetReceived, displayPage, last>>

\* the scanner delivers one advertisement of the set S
Receive(S) == \E adv \in S : onResult(adv)

Next == Receive(ProtocolAdverts) \/ Button1 \/ LoopTick
Spec == Init /\ [][Next]_vars

NextLen == Receive(LengthAdverts) \/ Button1 \/ LoopTick
SpecLen == Init /\ [][NextLen]_vars

NextRegion == Receive(RegionAdverts) \/ Button1 \/ LoopTick
SpecRegion == Init /\ [][NextRegion]_vars

(***************************************************************************)
(* What an advertisement is, seen from the sender.                         *)
(***************************************************************************)
\* the key[0] configured for an address, from the table as written
ConfiguredKey0(addr) == hexCharStrToByteArray(DeviceConfig[addr].charKey)[1]
\* the key-check byte the sender put in the header
SentKeyCheck(adv) == hexCharStrToByteArray(DeviceConfig[adv.keyOf].charKey)[1]
\* byte k (C index) of the record the sender encrypted
SentByte(adv, k) == PlainRecords[adv.plain][k + 1]
\* the 10-bit stateOfCharge field of that record: bits 44..53 of the packed region
SentSoc(adv) == (SentByte(adv, 13) \div 16) + 16 * (SentByte(adv, 14) % 64)
\* a Victron frame with the whole 16-byte record, from a configured address,
\* encrypted with that address's key
WellFormed(adv) ==
  /\ adv.hasMan /\ adv.vendor = 737 /\ adv.addr \in KnownAddrIds
  /\ adv.keyOf = adv.addr /\ adv.len = 26
KindOf(addr) == DeviceConfig[addr].deviceType
\* the number of record bytes each decoder reads
LayoutSize(decoder) == IF decoder = "solar" THEN 16 ELSE 15

(***************************************************************************)
(* C1.  A manufacturer-data field shorter than 8 bytes produces no frame:  *)
(* onResult stops before the registry lookup, never calls                  *)
(* decryptVictronData, reads no byte of manCharBuf that was not copied     *)
(* from the advertisement, and writes no cache entry.  (onResult has no    *)
(* length check: the statement fails.)                                     *)
(***************************************************************************)
C1_ShortFrameStopsEarly ==
  (last.seen /\ last.adv.hasMan /\ last.adv.len < 8)
    => /\ ~last.lookupCalled
       /\ ~last.decryptCalled
       /\ last.uninitRead = {}
       /\ last.wrote = {}

(***************************************************************************)
(* C2.  An advertisement whose manufacturer data carries a vendor id other *)
(* than 0x02E1 produces no Reading: whatever its address, key and other    *)
(* bytes, the step that handles it leaves solarData, shuntData and         *)
(* batterySenseData unchanged.                                             *)
(***************************************************************************)
C2_ForeignVendorLeavesCaches ==
  [][(last'.seen /\ last'.adv.hasMan /\ last'.adv.len >= 2 /\ last'.adv.vendor # 737)
       => (UNCHANGED caches /\ last'.wrote = {} /\ ~last'.lookupCalled)]_vars

C2_Witness ==
  /\ last.seen /\ last.adv.vendor # 737 /\ last.adv.len = 26 /\ last.adv.addr = 0
  /\ last.path = "wrongVendor"
  /\ solarData.valid /\ shuntData.valid /\ batterySenseData.valid

(***************************************************************************)
(* C3.  A Victron advertisement from a configured address whose key-check  *)
(* byte differs from byte 0 of that device's key produces no Reading,      *)
(* whatever the payload and the declared record type, and decryption is    *)
(* never attempted.                                                        *)
(***************************************************************************)
C3_KeyMismatchDropsPacket ==
  (/\ last.seen /\ last.adv.hasMan /\ last.adv.len >= 10 /\ last.adv.vendor = 737
   /\ last.adv.addr \in KnownAddrIds
   /\ SentKeyCheck(last.adv) # ConfiguredKey0(last.adv.addr))
    => /\ last.wrote = {}
       /\ ~last.decryptCalled
       /\ last.path = "keyMismatch"

C3_Witness ==
  /\ last.seen /\ last.adv.addr = 2 /\ last.adv.keyOf = 0 /\ last.adv.plain = 5
  /\ last.adv.rtype = VICTRON_TYPE_BATTERY_MONITOR
  /\ last.path = "keyMismatch" /\ last.log = <<"KEY MISMATCH">>

(***************************************************************************)
(* C4.  A Victron advertisement whose address matches no entry of          *)
(* victronDevices produces no Reading, whatever its payload, and exactly   *)
(* one unknown-device log entry.                                           *)
(***************************************************************************)
C4_UnknownAddressLoggedOnce ==
  (/\ last.seen /\ last.adv.hasMan /\ last.adv.len >= 10 /\ last.adv.vendor = 737
   /\ last.adv.addr \notin KnownAddrIds)
    => /\ last.wrote = {}
       /\ last.log = <<"NEW DEVICE">>
       /\ ~last.decryptCalled

C4_Witness ==
  /\ last.seen /\ last.adv.addr \notin KnownAddrIds /\ last.adv.vendor = 737
  /\ last.path = "unknownDevice" /\ Len(last.log) = 1

(***************************************************************************)
(* C5.  The scenario of the specification: from the address configured as  *)
(* SolarCharger, vendor id 0x02E1, record type 0x01, matching key-check    *)
(* byte, payload decrypting to deviceState=3, errorCode=0,                 *)
(* batteryVoltage=1260, batteryCurrent=-15, dailyYield=120, inputPower=45, *)
(* loadCurrentLow=0x32.                                                    *)
(* As stated, with loadCurrentHigh=0b11111101, a solar Reading with        *)
(* chargeState 3, 12.60 V, -1.5 A, 1200 Wh and load current (1<<9)|0x32    *)
(* is published: this fails, the packet is dropped by the reserved-bit     *)
(* check.  Amended, with loadCurrentHigh=0b11111111, that Reading is       *)
(* published.                                                              *)
(***************************************************************************)
ScenarioReading ==
  /\ solarData.valid
  /\ solarData.chargeState = 3
  /\ solarData.errorCode = 0
  /\ solarData.batteryVoltage = 1260
  /\ solarData.batteryCurrent = 0 - 15
  /\ solarData.todayYield = 1200
  /\ solarData.inputPower = 45
  /\ solarData.loadCurrent = 512 + 50

ReachesSolarDecoder(adv) ==
  WellFormed(adv) /\ KindOf(adv.addr) = DEVICE_SOLAR_CHARGER
    /\ adv.rtype = VICTRON_TYPE_SOLAR_CHARGER
UpperSevenBits(b) == b \div 2

C7_SocUnavailablePropagates ==
  (last.seen /\ "shunt" \in last.wrote)
    => /\ SentSoc(last.adv) = 1023 => ~(shuntData.valid /\ shuntData.soc \in 0..1023)
       /\ SentSoc(last.adv) = 500 => shuntData.soc = 500

(***************************************************************************)
(* C8.  When the decrypted bytes are fewer than the record a decoder reads *)
(* (16 for the solar charger, 15 for the shunt and the battery sense), the *)
(* decoder reports a short payload and writes no Reading.  (No decoder     *)
(* checks a length: the statement fails.)                                  *)
(***************************************************************************)
C8_ShortPayloadWritesNothing ==
  (last.seen /\ last.decoder # "none" /\ last.encrDataSize < LayoutSize(last.decoder))
    => last.wrote = {}

(***************************************************************************)
(* C9.  A packet is decoded only when its declared record type matches the *)
(* configured kind of the sending address (0x01 for the solar charger,     *)
(* 0x02 for the shunt); any other declared type from those addresses       *)
(* produces no Reading.  The exception is the address configured as        *)
(* battery sense: every declared record type is decoded into a temperature *)
(* Reading.                                                                *)
(***************************************************************************)
C9_RecordTypeRouting ==
  last.seen =>
    /\ "solar" \in last.wrote =>
         /\ KindOf(last.adv.addr) = DEVICE_SOLAR_CHARGER
         /\ last.adv.rtype = VICTRON_TYPE_SOLAR_CHARGER
    /\ "shunt" \in last.wrote =>
         /\ KindOf(last.adv.addr) = DEVICE_SMART_SHUNT
         /\ last.adv.rtype = VICTRON_TYPE_BATTERY_MONITOR
    /\ "sense" \in last.wrote => KindOf(last.adv.addr) = DEVICE_BATTERY_SENSE
    /\ (WellFormed(last.adv) /\ KindOf(last.adv.addr) = DEVICE_SMART_SHUNT
          /\ last.adv.rtype = VICTRON_TYPE_BATTERY_MONITOR) => last.wrote = {"shunt"}
    /\ (WellFormed(last.adv) /\ KindOf(last.adv.addr) = DEVICE_BATTERY_SENSE)
         => last.wrote = {"sense"}

C9_Witness ==
  /\ last.seen /\ WellFormed(last.adv) /\ KindOf(last.adv.addr) = DEVICE_BATTERY_SENSE
  /\ last.adv.rtype = VICTRON_TYPE_INVERTER
  /\ last.wrote = {"sense"}
  /\ batterySenseData.temperature = 29515 - 27315

(***************************************************************************)
(* C10.  For an accepted frame with n encrypted bytes, n in 1..21,         *)
(* decryptVictronData consumes exactly the n encrypted bytes of the frame, *)
(* produces exactly n decrypted bytes, and reads and writes only inside    *)
(* inputData and outputData.  (Both buffers hold 16 bytes: the statement   *)
(* fails for n in 17..21.)                                                 *)
(***************************************************************************)
C10_DecryptStaysInBounds ==
  (last.seen /\ last.decryptCalled /\ last.encrDataSize \in 1..21)
    => /\ last.copied = last.encrDataSize
       /\ last.cipherBytes = last.encrDataSize
       /\ ~last.readPastInput
       /\ ~last.wrotePastOutput

(***************************************************************************)
(* C11.  The refresh signal (packetReceived set to true, then              *)
(* updateDisplay) is raised by an advertisement only if that advertisement *)
(* was decoded and its Reading written to a cache; an advertisement that   *)
(* is dropped, a solar packet failing the reserved-bit check or a packet   *)
(* of an unexpected record type included, raises neither part of it.  (The *)
(* switch sets packetReceived before knowing what processSolarCharger did, *)
(* and updateDisplay is called after the switch whatever it did: the       *)
(* statement fails.)                                                       *)
(***************************************************************************)
C11_RefreshOnlyWhenWritten ==
  (last.seen /\ last.wrote = {}) => (~last.packet /\ ~last.refresh)

(***************************************************************************)
(* C12.  Round trip: a 16-byte record encrypted in AES-128 counter mode    *)
(* with a key and the nonce [counter low byte, counter high byte, 0 x 14], *)
(* then passed through decryptVictronData with the same key and the same   *)
(* counter, comes out as the original record, byte for byte.               *)
(***************************************************************************)
C12_DecryptRoundTrip ==
  (last.seen /\ WellFormed(last.adv))
    => /\ Traces[last.adv].path = "dispatched"
       /\ last.copied = 16 /\ last.cipherBytes = 16
       /\ Traces[last.adv].data = PlainRecords[last.adv.plain]

C12_Witness ==
  /\ last.seen /\ WellFormed(last.adv) /\ last.adv.addr = 0 /\ last.adv.plain = 2
  /\ last.adv.rtype = VICTRON_TYPE_SOLAR_CHARGER
  /\ NonceOf(last.adv.plain) % 256 # NonceOf(last.adv.plain) \div 256
  /\ Traces[last.adv].data = SolarRecord(3, 0, 1260, 0 - 15, 120, 45, 50, 255)
  /\ SubSeq(ManufacturerData(last.adv), OffEncrypted + 1, OffEncrypted + 16)
       # PlainRecords[last.adv.plain]

(***************************************************************************)
(* C13.  The shunt decoder's raw current is bits 2..23 of the 7-byte       *)
(* packed region read as a little-endian integer, taken as a 22-bit two's  *)
(* complement number: it lies in -2097152..2097151 and does not depend on  *)
(* the aux selector bits 0..1 nor on any bit above bit 23.                 *)
(***************************************************************************)
\* the packed region of the record the sender encrypted
RegionOf(plain) == SubSeq(PlainRecords[plain], 9, 15)
\* bits 2..23 of the region as a little-endian integer: they lie in its first
\* three bytes
Bits2to23(region) == (region[1] + 256 * region[2] + 65536 * region[3]) \div 4
AsSigned22(v) == IF v >= 2097152 THEN v - 4194304 ELSE v

C13_ShuntCurrentIsBits2to23 ==
  (last.seen /\ "shunt" \in last.wrote)
    => /\ shuntData.batteryCurrent = AsSigned22(Bits2to23(RegionOf(last.adv.plain)))
       /\ shuntData.batteryCurrent \in (0 - 2097152)..2097151
       /\ \A q \in RegionIds :
            Bits2to23(RegionOf(q)) = Bits2to23(RegionOf(last.adv.plain))
              => ShuntCurrentRaw(PlainRecords[q]) = shuntData.batteryCurrent

C13_Witness ==
  /\ last.seen /\ "shunt" \in last.wrote /\ last.adv.plain \in RegionIds
  /\ RegionOf(last.adv.plain)[1] % 4 = 3
  /\ RegionOf(last.adv.plain)[4] = 255
  /\ shuntData.batteryCurrent = 0 - 2097152

(***************************************************************************)
(* C14.  An advertisement that onResult drops (no manufacturer data, wrong *)
(* vendor id, unknown address, key-check mismatch, decryption failure, a   *)
(* record type that is not the one of a solar or shunt address, or a solar *)
(* record failing the reserved-bit check) leaves every field of solarData, *)
(* shuntData and batterySenseData, the valid flags included, as it was.    *)
(***************************************************************************)
\* the advertisement is one of those the statement lists, told from what was sent
DroppedAdvert(adv) ==
  \/ ~adv.hasMan
  \/ adv.vendor # 737
  \/ adv.addr \notin KnownAddrIds
  \/ SentKeyCheck(adv) # ConfiguredKey0(adv.addr)
  \/ KindOf(adv.addr) = DEVICE_SOLAR_CHARGER /\ adv.rtype # VICTRON_TYPE_SOLAR_CHARGER
  \/ KindOf(adv.addr) = DEVICE_SMART_SHUNT /\ adv.rtype # VICTRON_TYPE_BATTERY_MONITOR
  \/ KindOf(adv.addr) = DEVICE_SOLAR_CHARGER /\ UpperSevenBits(SentByte(adv, 11)) # 127

\* the full-length advertisements of that kind
DroppedAdverts == {adv \in ProtocolAdverts : DroppedAdvert(adv)}

C14_DroppedAdvertLeavesCaches ==
  [][(last'.seen /\ last'.adv \in DroppedAdverts)
       => (UNCHANGED caches /\ last'.wrote = {})]_vars

C14_Witness ==
  /\ last.seen /\ WellFormed(last.adv) /\ last.adv \in DroppedAdverts
  /\ KindOf(last.adv.addr) = DEVICE_SOLAR_CHARGER
  /\ last.adv.rtype = VICTRON_TYPE_SOLAR_CHARGER /\ SentByte(last.adv, 11) = 253
  /\ last.path = "dispatched"
  /\ solarData.valid /\ solarData.loadCurrent = 10 /\ solarData.chargeState = 5
  /\ shuntData.valid /\ batterySenseData.valid

====
